---- MODULE Spec2Model ----
(***************************************************************************)
(* Model of the off-ramp settlement saga (the /api/offramp POST handler),  *)
(* the Paycrest webhook POST handler and the polling utility they use.     *)
(* The bridge provider (LayerSwap), the payout provider (Paycrest) and the *)
(* two chains are the environment: their state is modelled as far as the   *)
(* handlers read or change it.                                             *)
(***************************************************************************)
EXTENDS Integers, Sequences, FiniteSets, TLC

----------------------------------------------------------------------------
(* Bounds of the model *)

\* number of saga requests that can be in flight in SpecConc
MaxRuns == 2
\* number of webhook deliveries in one behaviour
MaxWebhooks == 2
\* a polled provider call takes 0..MaxLatencySteps intervals of its loop
MaxLatencySteps == 1
\* a call of pollWithTimeout followed statement by statement: its interval,
\* its timeout and the latency of one pollFn call range over 0 .. bound (ms),
\* and the call is followed for at most MaxFetches calls of pollFn
MaxPollInterval == 2
MaxPollTimeout == 3
MaxPollLatency == 2
MaxFetches == 4
\* a call of exponentialBackoff followed statement by statement: maxRetries
\* ranges over -1 .. MaxRetries, baseDelay over 0 .. MaxBaseDelay (ms)
MaxRetries == 3
MaxBaseDelay == 2

----------------------------------------------------------------------------
(* Program constants *)

\* pollLayerSwapStatus: interval and timeout handed to pollWithTimeout (ms)
BridgeInterval == 5000
BridgeTimeout == 300000
\* pollPaycrestStatus: interval and timeout handed to pollWithTimeout (ms)
PayInterval == 10000
PayTimeout == 600000
\* the client utility's pollLayerSwapStatus: interval and timeout, in ms
ClientInterval == 5000
ClientTimeout == 300000

NoVal == "none"

Runs == 1 .. MaxRuns

\* how long a provider call of a polling loop can take, in steps of the
\* loop's interval
FetchLatencies(interval) == { k * interval : k \in 0 .. MaxLatencySteps }

\* what a polled provider call can do: answer after some latency, or fail
FetchOutcomes(interval) ==
  { [ ok |-> TRUE, latency |-> l ] : l \in FetchLatencies(interval) }
    \cup { [ ok |-> FALSE, latency |-> 0 ] }

----------------------------------------------------------------------------
(* Data of the providers *)

\* type LayerSwapStatus
LayerSwapStatus ==
  { "user_transfer_pending", "cancelled", "expired",
    "ls_transfer_pending", "completed", "failed" }

\* The bridge provider's lifecycle, from the comments of the type:
\* waiting for the user transfer; transaction received; then completed or
\* failed; cancelled or expired while no transfer was received.
LayerSwapNext(s) ==
  CASE s = "user_transfer_pending" -> { "ls_transfer_pending", "cancelled", "expired" }
    [] s = "ls_transfer_pending"   -> { "completed", "failed" }
    [] OTHER                        -> {}

\* type PaycrestOrderStatus
PaycrestOrderStatus == { "pending", "validated", "settled", "refunded", "expired" }

\* the statuses on which pollPaycrestStatus stops
PaycrestTerminal == { "validated", "settled", "refunded", "expired" }

\* a stop list that also holds the status of a swap still in transfer
BridgePollStops_early == { "ls_transfer_pending", "completed", "failed" }

\* the statuses on which the orchestrator's pollLayerSwapStatus stops
BridgePollStops == { "fulfilled", "completed", "failed" }

SwapIds == { "s1" }
OrderIds == { "o1", "o2" }

\* the quote of a swap, amounts in units of 10^-6 USDC
Quote == [ receive_amount |-> 10000000, min_receive_amount |-> 9900000 ]
\* the fees the payout provider declares for an order, same unit
OrderFees == [ senderFee |-> 100000, transactionFee |-> 200000 ]
PaycrestRate == [ rate |-> 1500 ]

ReceiveAddress(o) == << "addr", o >>

----------------------------------------------------------------------------
(* The off-ramp request *)

RequiredFields ==
  << "swapId", "token", "amount", "fiatCurrency", "bankCode", "accountNumber",
     "accountName", "userStarknetAddress", "destinationFiatAmount" >>

FieldSet == { RequiredFields[i] : i \in 1 .. Len(RequiredFields) }

\* a body with every field present; "" stands for an absent or empty field
FullBody(s) ==
  [ f \in FieldSet |->
      CASE f = "swapId" -> s
        [] f = "token" -> "USDC"
        [] f = "amount" -> "10"
        [] f = "fiatCurrency" -> "NGN"
        [] f = "bankCode" -> "GTB"
        [] f = "accountNumber" -> "0123456789"
        [] f = "accountName" -> "A N Other"
        [] f = "userStarknetAddress" -> "0xabc"
        [] OTHER -> "15000" ]

BadJson == [ f \in FieldSet |-> "<not json>" ]

\* the JSON text null: req.json() gives null, a body without any field
NullJson == [ f \in FieldSet |-> "<null>" ]

Bodies ==
  { FullBody(s) : s \in SwapIds }
    \cup { [ FullBody(s) EXCEPT ![f] = "" ] : s \in SwapIds, f \in FieldSet }
    \cup { BadJson, NullJson }

\* validateRequest: every required field is truthy
validateRequest(body) ==
  \A i \in 1 .. Len(RequiredFields) : body[RequiredFields[i]] # ""

----------------------------------------------------------------------------
(* pollWithTimeout *)

\* One pass through the body of the while loop, entered when
\* Date.now() - startTime < timeout held with Date.now() - startTime = elapsed.
\* fetched is what "await pollFn()" produced after latency ms: [ok, value];
\* conditionHolds is checkCondition(result) for that value.
\* out: "fetchError" (pollFn threw, the error propagates), "return" (the
\* condition held), "loop" (slept, loop condition holds again), "timeout"
\* (slept, loop condition false: throw "Polling timeout exceeded").
pollBody(elapsed, fetched, latency, conditionHolds, interval, timeout) ==
  LET t1 == elapsed + latency
      t2 == t1 + interval
  IN  IF ~fetched.ok
        THEN [ out |-> "fetchError", elapsed |-> t1, result |-> fetched.value ]
      ELSE IF conditionHolds
        THEN [ out |-> "return", elapsed |-> t1, result |-> fetched.value ]
      ELSE IF t2 < timeout
        THEN [ out |-> "loop", elapsed |-> t2, result |-> fetched.value ]
      ELSE [ out |-> "timeout", elapsed |-> t2, result |-> fetched.value ]

PollTimeoutError == "Polling timeout exceeded"

\* a condition that does not hold of a completed swap
bridgeCheckCondition_noCompleted(result) ==
  result.status \in { "fulfilled", "failed" }

\* the condition pollLayerSwapStatus hands to pollWithTimeout
bridgeCheckCondition(result) == result.status \in BridgePollStops

\* the statuses on which the client utility's pollLayerSwapStatus stops
finalStates == { "completed", "failed", "cancelled", "expired" }

\* the condition the client utility's pollLayerSwapStatus hands to
\* pollWithTimeout
isComplete(result) == result.status \in finalStates

\* the HTTP statuses the payout provider answers a rate request with; axios
\* throws on every status outside 2xx
HttpStatuses == { 200, 400, 429, 503 }

\* a condition that holds of every order, a pending one included
paycrestCheckCondition_any(result) == result.status \in PaycrestOrderStatus

\* the condition pollPaycrestStatus hands to pollWithTimeout
paycrestCheckCondition(result) == result.status \in PaycrestTerminal

----------------------------------------------------------------------------
(* State *)

VARIABLES
  saga,        \* per request: the POST handler's position and local variables
               \* (elapsed is Date.now() - startTime of the running poll)
  active,      \* the requests that are sent in this behaviour
  swapStatus,  \* bridge provider: status of each swap
  payOrders,   \* payout provider: status of each order, NoVal before creation
  srcTxs,      \* source chain: the deposit transactions executed
  baseTxs,     \* settlement chain: the USDC transfers submitted
  wh,          \* the last webhook request and the handler's answer to it
  raced,       \* history: runs whose payout poll was overtaken by a webhook
  poll,        \* one call of pollWithTimeout, followed statement by statement
  retry,       \* one call of exponentialBackoff, followed statement by statement
  client,      \* one call of the client utility pollLayerSwapStatus
  proxy        \* one request to the proxy route, followed statement by statement

vars == << saga, active, swapStatus, payOrders, srcTxs, baseTxs, wh, raced, poll, retry, client, proxy >>

NoOrder ==
  [ id |-> NoVal, receiveAddress |-> << "addr", NoVal >>, senderFee |-> 0,
    transactionFee |-> 0, status |-> NoVal ]

\* the payout provider's record of an order that was not created yet
NoPayOrder == [ status |-> NoVal, amount |-> 0, account |-> NoVal ]

NoResult == [ id |-> NoVal, status |-> NoVal ]

NoResp ==
  [ code |-> 0, error |-> NoVal, status |-> NoVal, starknetTxHash |-> 0,
    baseTxHash |-> 0, paycrestOrderId |-> NoVal, finalStatus |-> NoResult ]

\* nothing fetched yet of the swap
NoSwap == [ status |-> NoVal, actions |-> NoVal ]

\* swap holds what fetchLayerSwapSwap answered: the status of the swap and
\* its deposit actions; polls counts the calls of pollFn in the loop of
\* pollLayerSwapStatus up to "more than two", until the rate is fetched;
\* rateStatus is the HTTP status of the answer to the rate request and
\* paycrestRate the rate it carried; compat is what the compatibility lookup
\* did
IdleRun ==
  [ pc |-> "idle", body |-> BadJson, swap |-> NoSwap,
    compat |-> NoVal, starknetTxHash |-> 0, elapsed |-> 0, polls |-> 0,
    bridgeResult |-> NoVal, rateAmount |-> 0, rateCalls |-> 0, orderCalls |-> 0,
    rateStatus |-> 0, paycrestRate |-> 0,
    paycrestOrder |-> NoOrder, submits |-> 0, pendingHash |-> 0,
    baseTxHash |-> 0, totalAmount |-> 0, payResult |-> NoResult,
    thrown |-> NoVal, resp |-> NoResp ]

\* A raw webhook body: text that is not JSON, the JSON text null, the JSON
\* text of a number or string, or the JSON text of an event object.
TextBody == [ kind |-> "text", orderId |-> NoVal, status |-> NoVal ]
NullBody == [ kind |-> "null", orderId |-> NoVal, status |-> NoVal ]
ScalarBody == [ kind |-> "scalar", orderId |-> NoVal, status |-> NoVal ]
EventBody(o, st) == [ kind |-> "object", orderId |-> o, status |-> st ]

NoLog == << NoVal, NoVal >>

\* the bodies sent to the webhook endpoint: no JSON, null, a scalar, an event
\* of every status (and of a status the type does not know) for the first
\* order, an event for the other order
WebhookBodies ==
  { TextBody, NullBody, ScalarBody, EventBody("o2", "settled") }
    \cup { EventBody("o1", st) : st \in PaycrestOrderStatus \cup { "unknown" } }

\* process.env.PAYCREST_WEBHOOK_SECRET, and a key that is not the secret
Secret == "whsec"
Keys == { Secret, "other" }

\* createHmac("sha256", secret).update(payload).digest("hex"): a MAC without
\* collisions, so the digest determines the key and the payload
Hmac(secret, payload) == [ kind |-> "hex", key |-> secret, over |-> payload ]

\* req.headers.get("x-paycrest-signature"): null, "", or a digest
NoHeader == [ kind |-> "absent", key |-> NoVal, over |-> TextBody ]
EmptyHeader == [ kind |-> "empty", key |-> NoVal, over |-> TextBody ]

\* the requests sent to the webhook endpoint: every body signed with the
\* secret and signed with another key; some bodies without a signature, with
\* an empty one and with the secret's signature of another body
WebhookRequests ==
  { [ body |-> b, sig |-> Hmac(k, b) ] : b \in WebhookBodies, k \in Keys }
    \cup { [ body |-> b, sig |-> NoHeader ] :
             b \in { TextBody, NullBody, EventBody("o1", "settled") } }
    \cup { [ body |-> EventBody("o1", "settled"), sig |-> EmptyHeader ],
           [ body |-> EventBody("o1", "settled"), sig |-> Hmac(Secret, TextBody) ] }

NoWebhook ==
  [ n |-> 0, body |-> TextBody, sig |-> NoHeader, code |-> 0, json |-> NoVal,
    parsed |-> FALSE, logged |-> NoLog, prior |-> NoVal, again |-> FALSE ]

\* what pollFn returned: the seq-th result fetched, and whether
\* checkCondition holds of it
NoFetch == [ seq |-> 0, terminal |-> FALSE ]

\* pollWithTimeout not called
NoPoll ==
  [ pc |-> "idle", interval |-> 0, timeout |-> 0, elapsed |-> 0, fetches |-> 0,
    slept |-> FALSE, result |-> NoFetch, raised |-> NoVal, out |-> NoVal ]

\* what fn returned or threw in its n-th call, or what exponentialBackoff
\* returned or threw
NoOutcome == [ kind |-> NoVal, n |-> 0 ]
Undefined == [ kind |-> "undefined", n |-> 0 ]

\* the client utility pollLayerSwapStatus not called; lastStatus "null" is
\* the null of line 9, prev is the status of the last fetch, notified the
\* statuses onStatusChange was called with, in order
NoClient ==
  [ pc |-> "idle", withCallback |-> FALSE, elapsed |-> 0, lastStatus |-> "null",
    prev |-> NoVal, notified |-> << >>, out |-> NoVal, result |-> NoVal ]

\* no request to the proxy route; endpoint is the endpoint parameter as a
\* sequence of characters, outbound the provider request made
NoOutbound == [ base |-> NoVal, method |-> NoVal, endpoint |-> << >> ]
NoProxy ==
  [ pc |-> "idle", method |-> NoVal, hasEndpoint |-> FALSE, endpoint |-> << >>,
    bodyIsJson |-> FALSE, baseUrl |-> NoVal, outbound |-> NoOutbound,
    code |-> 0, error |-> NoVal ]

\* exponentialBackoff not called
NoRetry ==
  [ pc |-> "idle", maxRetries |-> 0, baseDelay |-> 0, i |-> 0, calls |-> 0,
    errors |-> << >>, delays |-> << >>, out |-> NoVal, value |-> NoOutcome ]

EnvInit ==
  /\ swapStatus \in [ SwapIds -> LayerSwapStatus ]
  /\ payOrders = [ o \in OrderIds |-> NoPayOrder ]
  /\ srcTxs = {}
  /\ baseTxs = {}
  /\ wh = NoWebhook
  /\ raced = {}
  /\ poll = NoPoll
  /\ retry = NoRetry
  /\ client = NoClient
  /\ proxy = NoProxy

\* one request, the providers and the webhook endpoint
Init ==
  /\ saga = [ r \in Runs |-> IdleRun ]
  /\ active = { 1 }
  /\ EnvInit

\* MaxRuns requests in flight at once
InitConc ==
  /\ saga = [ r \in Runs |-> IdleRun ]
  /\ active = Runs
  /\ EnvInit

----------------------------------------------------------------------------
(* The off-ramp POST handler *)

\* The hash a chain gives to the n-th transaction sent on behalf of request r:
\* hashes are opaque and differ from transaction to transaction.
TxHash(r, n) == 10 * r + n

\* NextResponse.json({ error }, { status })
ErrorResponse(code, msg) == [ NoResp EXCEPT !.code = code, !.error = msg ]

\* a catch block that answers success
catchResponse_success(error) ==
  [ NoResp EXCEPT !.code = 200, !.status = "success" ]

\* the catch block: every thrown error gets the same answer
catchResponse(error) == ErrorResponse(500, "Internal server error")

Respond(r, rec, resp) ==
  saga' = [ saga EXCEPT ![r] = [ rec EXCEPT !.pc = "done", !.resp = resp ] ]

Throw(r, rec, error) ==
  saga' = [ saga EXCEPT ![r] =
              [ rec EXCEPT !.pc = "done", !.thrown = error,
                           !.resp = catchResponse(error) ] ]

EnvUnchanged == UNCHANGED << active, swapStatus, payOrders, srcTxs, baseTxs, wh, raced, poll, retry, client, proxy >>

\* lines 40-44: req.json() and validateRequest; body[field] of line 261
\* throws a TypeError when the body is null
Receive(r) ==
  /\ saga[r].pc = "idle"
  /\ r \in active
  /\ \E body \in Bodies :
       LET rec == [ saga[r] EXCEPT !.body = body ]
       IN  IF body = BadJson
             THEN Throw(r, rec, "SyntaxError")
           ELSE IF body = NullJson
             THEN Throw(r, rec, "TypeError")
           ELSE IF ~validateRequest(body)
             THEN Respond(r, rec, ErrorResponse(400, "Invalid request"))
           ELSE saga' = [ saga EXCEPT ![r] = [ rec EXCEPT !.pc = "fetchSwap" ] ]
  /\ EnvUnchanged

\* the check of line 51 with && in the place of ||
invalidSwapState_and(actions, status) ==
  actions = "none" /\ status # "user_transfer_pending"

\* line 51: !depositAction || swap.status !== "user_transfer_pending";
\* actions tells what deposit_actions holds: nothing ("none"), an action
\* whose call_data parses ("calls"), one whose call_data does not
invalidSwapState(actions, status) ==
  actions = "none" \/ status # "user_transfer_pending"

\* lines 46-56: fetchLayerSwapSwap, the swap state check, JSON.parse(call_data)
FetchSwap(r) ==
  /\ saga[r].pc = "fetchSwap"
  /\ \E ok \in BOOLEAN, actions \in { "none", "calls", "badCallData" } :
       LET st == swapStatus[saga[r].body.swapId]
           rec == [ saga[r] EXCEPT !.swap = [ status |-> st, actions |-> actions ] ]
       IN  IF ~ok
             THEN Throw(r, saga[r], "AxiosError")
           ELSE IF invalidSwapState(actions, st)
             THEN Respond(r, rec, ErrorResponse(400, "Invalid swap state"))
           ELSE IF actions = "badCallData"
             THEN Throw(r, rec, "SyntaxError")
           ELSE saga' = [ saga EXCEPT ![r] = [ rec EXCEPT !.pc = "compat" ] ]
  /\ EnvUnchanged

\* what fetchAccountCompatibility of the gasless SDK does: it answers that
\* the account is compatible or that it is not, or it throws
CompatLookups == { "compatible", "incompatible", "error" }

\* a lookup whose error counts as compatible
checkGaslessCompatibility_optimistic(lookup) == lookup # "incompatible"

\* checkGaslessCompatibility: compatibility.isCompatible, and false when the
\* lookup threw
checkGaslessCompatibility(lookup) ==
  IF lookup = "error" THEN FALSE ELSE lookup = "compatible"

\* executeStarknetTransfer, lines 132-136: checkGaslessCompatibility returns
\* false for an incompatible account and when the lookup failed
CheckCompat(r) ==
  /\ saga[r].pc = "compat"
  /\ \E lookup \in CompatLookups :
       LET rec == [ saga[r] EXCEPT !.compat = lookup ]
           isCompatible == checkGaslessCompatibility(lookup)
       IN  IF ~isCompatible
             THEN Throw(r, rec, "Account not compatible with gasless transactions")
           ELSE saga' = [ saga EXCEPT ![r] = [ rec EXCEPT !.pc = "gasPrices" ] ]
  /\ EnvUnchanged

\* executeStarknetTransfer, line 139: getGasTokenPrices rethrows
GasPrices(r) ==
  /\ saga[r].pc = "gasPrices"
  /\ \E ok \in BOOLEAN :
       IF ~ok
         THEN Throw(r, saga[r], "GasPriceError")
       ELSE saga' = [ saga EXCEPT ![r].pc = "gasless" ]
  /\ EnvUnchanged

\* executeStarknetTransfer, lines 146-152: executeGaslessCalls; it rethrows,
\* before the transaction went out or after
GaslessExec(r) ==
  /\ saga[r].pc = "gasless"
  /\ \E outcome \in { "ok", "failed", "sentThenThrew" } :
       LET hash == TxHash(r, 1)
           sent == srcTxs \cup { [ hash |-> hash, swap |-> saga[r].body.swapId ] }
       IN  CASE outcome = "ok" ->
                  /\ srcTxs' = sent
                  /\ saga' = [ saga EXCEPT ![r].pc = "bridgePoll",
                                           ![r].starknetTxHash = hash,
                                           ![r].elapsed = 0 ]
             [] outcome = "failed" ->
                  /\ srcTxs' = srcTxs
                  /\ Throw(r, saga[r], "GaslessError")
             [] outcome = "sentThenThrew" ->
                  /\ srcTxs' = sent
                  /\ Throw(r, saga[r], "GaslessError")
  /\ UNCHANGED << active, swapStatus, payOrders, baseTxs, wh, raced, poll, retry, client, proxy >>

\* lines 62-66 and pollLayerSwapStatus: one pass of the polling loop, and
\* what POST does with the result once the loop returned
BridgePoll(r) ==
  /\ saga[r].pc = "bridgePoll"
  /\ \E fetch \in FetchOutcomes(BridgeInterval) :
       LET rec == saga[r]
           latency == fetch.latency
           fetched == [ ok |-> fetch.ok,
                        value |-> [ id |-> rec.body.swapId,
                                    status |-> swapStatus[rec.body.swapId] ] ]
           p == pollBody(rec.elapsed, fetched, latency,
                         bridgeCheckCondition(fetched.value),
                         BridgeInterval, BridgeTimeout)
           called == IF rec.polls < 3 THEN rec.polls + 1 ELSE rec.polls
           left == [ rec EXCEPT !.elapsed = 0, !.polls = 0 ]
           got == [ left EXCEPT !.bridgeResult = p.result.status ]
       IN  CASE p.out = "fetchError" -> Throw(r, left, "AxiosError")
             [] p.out = "timeout" -> Throw(r, left, PollTimeoutError)
             [] p.out = "loop" ->
                  saga' = [ saga EXCEPT ![r].elapsed = p.elapsed,
                                        ![r].polls = called ]
             [] p.out = "return" ->
                  IF p.result.status = "failed"
                    THEN Respond(r, got, ErrorResponse(500, "Bridge failed"))
                  ELSE saga' = [ saga EXCEPT ![r] =
                                   [ got EXCEPT !.pc = "rate", !.polls = called ] ]
  /\ EnvUnchanged

\* lines 68-73: fetchPaycrestRate(token, quote.receive_amount, fiatCurrency),
\* one axios.get whose error is thrown on to POST
FetchRate(r) ==
  /\ saga[r].pc = "rate"
  /\ \E status \in HttpStatuses :
       LET rec == [ saga[r] EXCEPT !.rateCalls = @ + 1, !.polls = 0,
                                   !.rateAmount = Quote.receive_amount,
                                   !.rateStatus = status ]
       IN  IF status # 200
             THEN Throw(r, rec, "AxiosError")
           ELSE saga' = [ saga EXCEPT ![r] =
                            [ rec EXCEPT !.pc = "createOrder",
                                         !.paycrestRate = PaycrestRate.rate ] ]
  /\ EnvUnchanged

\* the order data POST hands to createPaycrestOrder, as far as the payout
\* provider can tell two requests apart
orderData(body) ==
  [ amount |-> Quote.receive_amount, account |-> body.accountNumber ]

\* The ids the payout provider can answer a create-order request with: the
\* next unused id, or the id of an order it holds for the same order data
\* (a provider that treats the request as idempotent).
OrderIdsFor(data) ==
  LET unused == { o \in OrderIds : payOrders[o].status = NoVal }
      fresh == { o \in unused : \A u \in unused : o = u \/ <<o, u>> \in { <<"o1", "o2">> } }
      same == { o \in OrderIds : /\ payOrders[o].status # NoVal
                                 /\ payOrders[o].amount = data.amount
                                 /\ payOrders[o].account = data.account }
  IN  fresh \cup same

\* lines 75-85 and createPaycrestOrder: POST /sender/orders
CreateOrder(r) ==
  /\ saga[r].pc = "createOrder"
  /\ \E outcome \in { "ok", "failed", "createdThenThrew" } :
       LET rec == [ saga[r] EXCEPT !.orderCalls = @ + 1 ]
           data == orderData(rec.body)
       IN  IF outcome = "failed"
             THEN /\ Throw(r, rec, "AxiosError")
                  /\ payOrders' = payOrders
           ELSE \E o \in OrderIdsFor(data) :
                  LET st == IF payOrders[o].status = NoVal
                              THEN "pending" ELSE payOrders[o].status
                      order == [ id |-> o, receiveAddress |-> ReceiveAddress(o),
                                 senderFee |-> OrderFees.senderFee,
                                 transactionFee |-> OrderFees.transactionFee,
                                 status |-> st ]
                  IN  /\ payOrders' = [ payOrders EXCEPT ![o] =
                                          [ status |-> st, amount |-> data.amount,
                                            account |-> data.account ] ]
                      /\ IF outcome = "createdThenThrew"
                           THEN Throw(r, rec, "AxiosError")
                         ELSE saga' = [ saga EXCEPT ![r] =
                                [ rec EXCEPT !.pc = "baseSubmit",
                                             !.paycrestOrder = order ] ]
  /\ UNCHANGED << active, swapStatus, srcTxs, baseTxs, wh, raced, poll, retry, client, proxy >>

\* The arithmetic of executeBaseTransfer is that of JavaScript numbers.
\* A natural number beyond the 32-bit integers of TLC: the sequence of its
\* digits in base 2^10, lowest first.
Limb == 2^10

RECURSIVE NatLimbs(_)
NatLimbs(n) == IF n = 0 THEN << >> ELSE << n % Limb >> \o NatLimbs(n \div Limb)

RECURSIVE LimbsNat(_)
LimbsNat(b) == IF b = << >> THEN 0 ELSE b[1] + Limb * LimbsNat(Tail(b))

\* without the leading zero digits
RECURSIVE Trim(_)
Trim(b) ==
  IF b = << >> THEN b
  ELSE IF b[Len(b)] = 0 THEN Trim(SubSeq(b, 1, Len(b) - 1))
  ELSE b

\* the number of bits of b
BitLen(b) ==
  LET t == Trim(b)
  IN  IF t = << >> THEN 0
      ELSE 10 * (Len(t) - 1)
             + (CHOOSE k \in 1 .. 10 : 2^(k - 1) <= t[Len(t)] /\ t[Len(t)] < 2^k)

RECURSIVE AddLimbs(_, _, _)
AddLimbs(a, b, carry) ==
  IF a = << >> /\ b = << >>
    THEN IF carry = 0 THEN << >> ELSE << carry >>
  ELSE LET x == IF a = << >> THEN 0 ELSE a[1]
           y == IF b = << >> THEN 0 ELSE b[1]
           t == x + y + carry
       IN  << t % Limb >> \o AddLimbs(IF a = << >> THEN a ELSE Tail(a),
                                      IF b = << >> THEN b ELSE Tail(b),
                                      t \div Limb)

\* b * c + carry for a multiplier c below 2^20
RECURSIVE MulSmall(_, _, _)
MulSmall(b, c, carry) ==
  IF b = << >> THEN NatLimbs(carry)
  ELSE LET t == b[1] * c + carry
       IN  << t % Limb >> \o MulSmall(Tail(b), c, t \div Limb)

\* quotient and remainder of b by a divisor d below 2^20
RECURSIVE DivSmall(_, _)
DivSmall(b, d) ==
  IF b = << >> THEN [ q |-> << >>, r |-> 0 ]
  ELSE LET hi == DivSmall(Tail(b), d)
           t == Limb * hi.r + b[1]
       IN  [ q |-> << t \div d >> \o hi.q, r |-> t % d ]

\* b * 2^k
ShiftLeft(b, k) ==
  [ i \in 1 .. (k \div 10) |-> 0 ] \o MulSmall(b, 2^(k % 10), 0)

\* b \div 2^k, and whether a one bit was shifted out
ShiftRight(b, k) ==
  LET n == IF k \div 10 < Len(b) THEN k \div 10 ELSE Len(b)
      d == DivSmall(SubSeq(b, n + 1, Len(b)), 2^(k % 10))
  IN  [ q |-> d.q, lost |-> d.r # 0 \/ \E i \in 1 .. n : b[i] # 0 ]

IsOdd(b) == b # << >> /\ b[1] % 2 = 1

\* A JavaScript number (IEEE 754 binary64, not negative, in the normal
\* range): m * 2^e with a significand m of at most 53 bits.
\* Round53: the double nearest to b * 2^e (plus a fraction of the last bit of
\* b when sticky), ties to even.
Round53(b, e, sticky) ==
  LET s == BitLen(b) - 53
  IN  IF s <= 0 THEN [ m |-> Trim(b), e |-> e ]
      ELSE LET above == ShiftRight(b, s - 1)
               kept == Trim(DivSmall(above.q, 2).q)
               up == /\ IsOdd(above.q)
                     /\ (sticky \/ above.lost \/ IsOdd(kept))
           IN  [ m |-> IF up THEN AddLimbs(kept, << 1 >>, 0) ELSE kept,
                 e |-> e + s ]

\* the number a JSON response carries for the decimal n / 10^6: the double
\* nearest to it
JSONnumber(n) ==
  IF n = 0 THEN [ m |-> << >>, e |-> 0 ]
  ELSE LET d == DivSmall(ShiftLeft(NatLimbs(n), 80), 1000000)
       IN  Round53(d.q, 0 - 80, d.r # 0)

\* x + y in JavaScript
DoubleAdd(x, y) ==
  LET e == IF x.e < y.e THEN x.e ELSE y.e
  IN  Round53(AddLimbs(ShiftLeft(x.m, x.e - e), ShiftLeft(y.m, y.e - e), 0),
              e, FALSE)

\* x * c in JavaScript, for an integer c below 2^20
DoubleMul(x, c) == Round53(MulSmall(x.m, c, 0), x.e, FALSE)

\* BigInt(Math.floor(x))
DoubleFloor(x) ==
  IF x.e >= 0 THEN LimbsNat(ShiftLeft(x.m, x.e))
  ELSE LimbsNat(Trim(ShiftRight(x.m, 0 - x.e).q))

\* Math.pow(10, 6)
UsdcScale == 1000000

\* executeBaseTransfer, lines 214-216:
\* BigInt(Math.floor((amount + senderFee + txFee) * Math.pow(10, 6))).
\* The arguments are the decimals the provider responses carry, in units of
\* 10^-6; the result is the amount in base units.
totalAmount(amount, senderFee, txFee) ==
  DoubleFloor(DoubleMul(DoubleAdd(DoubleAdd(JSONnumber(amount),
                                            JSONnumber(senderFee)),
                                  JSONnumber(txFee)),
                        UsdcScale))

\* executeBaseTransfer, lines 214-223: baseWallet.writeContract; it throws
\* before the transaction went out or after
BaseSubmit(r) ==
  /\ saga[r].pc = "baseSubmit"
  /\ LET order == saga[r].paycrestOrder
         amt == totalAmount(Quote.receive_amount, order.senderFee,
                            order.transactionFee)
         rec == [ saga[r] EXCEPT !.submits = @ + 1, !.totalAmount = amt ]
         hash == TxHash(r, rec.submits)
         sent == baseTxs \cup { [ hash |-> hash, to |-> order.receiveAddress,
                                  amount |-> rec.totalAmount,
                                  confirmed |-> FALSE ] }
     IN  \E outcome \in { "ok", "failed", "sentThenThrew" } :
           CASE outcome = "ok" ->
                  /\ baseTxs' = sent
                  /\ saga' = [ saga EXCEPT ![r] =
                       [ rec EXCEPT !.pc = "baseWait", !.pendingHash = hash ] ]
             [] outcome = "failed" ->
                  /\ baseTxs' = baseTxs
                  /\ Throw(r, rec, "ContractWriteError")
             [] outcome = "sentThenThrew" ->
                  /\ baseTxs' = sent
                  /\ Throw(r, rec, "ContractWriteError")
  /\ UNCHANGED << active, swapStatus, payOrders, srcTxs, wh, raced, poll, retry, client, proxy >>

\* executeBaseTransfer returning the hash without the await of line 225
BaseWait_noWait(r) ==
  /\ saga[r].pc = "baseWait"
  /\ saga' = [ saga EXCEPT ![r].pc = "payPoll",
                           ![r].baseTxHash = saga[r].pendingHash,
                           ![r].elapsed = 0 ]
  /\ EnvUnchanged

\* executeBaseTransfer, lines 225-226: waitForTransactionReceipt returns once
\* the transaction is confirmed, or throws
BaseWait(r) ==
  /\ saga[r].pc = "baseWait"
  /\ \/ /\ \E t \in baseTxs : t.hash = saga[r].pendingHash /\ t.confirmed
        /\ saga' = [ saga EXCEPT ![r].pc = "payPoll",
                                 ![r].baseTxHash = saga[r].pendingHash,
                                 ![r].elapsed = 0 ]
     \/ Throw(r, saga[r], "WaitForReceiptError")
  /\ EnvUnchanged

\* lines 98-104: the success response
SuccessResponse(rec, finalStatus) ==
  [ code |-> 200, error |-> NoVal, status |-> "success",
    starknetTxHash |-> rec.starknetTxHash, baseTxHash |-> rec.baseTxHash,
    paycrestOrderId |-> rec.paycrestOrder.id, finalStatus |-> finalStatus ]

\* lines 95-104 and pollPaycrestStatus: one pass of the polling loop, and the
\* success response once the loop returned
PayPoll(r) ==
  /\ saga[r].pc = "payPoll"
  /\ \E fetch \in FetchOutcomes(PayInterval) :
       LET rec == saga[r]
           latency == fetch.latency
           o == rec.paycrestOrder.id
           fetched == [ ok |-> fetch.ok,
                        value |-> [ id |-> o, status |-> payOrders[o].status ] ]
           p == pollBody(rec.elapsed, fetched, latency,
                         paycrestCheckCondition(fetched.value),
                         PayInterval, PayTimeout)
           left == [ rec EXCEPT !.elapsed = 0 ]
           got == [ left EXCEPT !.payResult = p.result ]
       IN  CASE p.out = "fetchError" -> Throw(r, left, "AxiosError")
             [] p.out = "timeout" -> Throw(r, left, PollTimeoutError)
             [] p.out = "loop" -> saga' = [ saga EXCEPT ![r].elapsed = p.elapsed ]
             [] p.out = "return" -> Respond(r, got, SuccessResponse(got, p.result))
  /\ EnvUnchanged

----------------------------------------------------------------------------
(* The providers and the settlement chain *)

\* the bridge provider moves a swap along its lifecycle
BridgeAdvance(s) ==
  /\ \E st \in LayerSwapNext(swapStatus[s]) :
       swapStatus' = [ swapStatus EXCEPT ![s] = st ]
  /\ UNCHANGED << saga, active, payOrders, srcTxs, baseTxs, wh, raced, poll, retry, client, proxy >>

\* The payout provider moves a pending order to a terminal status: to expired
\* at any time, to the others once a transfer to the order's receive address
\* is confirmed.
PayoutAdvance(o) ==
  /\ payOrders[o].status = "pending"
  /\ \E st \in PaycrestTerminal :
       /\ st # "expired" =>
            \E t \in baseTxs : t.confirmed /\ t.to = ReceiveAddress(o)
       /\ payOrders' = [ payOrders EXCEPT ![o].status = st ]
  /\ UNCHANGED << saga, active, swapStatus, srcTxs, baseTxs, wh, raced, poll, retry, client, proxy >>

\* the settlement chain confirms a submitted transfer
ChainConfirm(t) ==
  /\ t \in baseTxs
  /\ ~t.confirmed
  /\ baseTxs' = (baseTxs \ { t }) \cup { [ t EXCEPT !.confirmed = TRUE ] }
  /\ UNCHANGED << saga, active, swapStatus, payOrders, srcTxs, wh, raced, poll, retry, client, proxy >>

----------------------------------------------------------------------------
(* The webhook POST handler *)

\* verifySignature with the secret left out of the comparison
verifySignature_anyKey(payload, signature, secret) ==
  signature.kind = "hex" /\ signature.over = payload

\* verifySignature
verifySignature(payload, signature, secret) == signature = Hmac(secret, payload)

\* JSON.parse(body): throws on text that is not JSON
JSONparse(body) ==
  CASE body.kind = "text" -> [ ok |-> FALSE, null |-> FALSE, value |-> body ]
    [] body.kind = "null" -> [ ok |-> TRUE, null |-> TRUE, value |-> body ]
    [] OTHER -> [ ok |-> TRUE, null |-> FALSE, value |-> body ]

\* lines 295-315: the switch on payload.status, as the line it logs
webhookSwitch(payload) ==
  CASE payload.status = "validated" -> << "Fiat payment sent:", payload.orderId >>
    [] payload.status = "settled" -> << "Blockchain settled:", payload.orderId >>
    [] payload.status = "refunded" -> << "Payment refunded:", payload.orderId >>
    [] payload.status = "expired" -> << "Order expired:", payload.orderId >>
    [] OTHER -> NoLog

WebhookAnswer(code, json, parsed, logged) ==
  [ code |-> code, json |-> json, parsed |-> parsed, logged |-> logged ]

\* the handler with a default case that refuses a status it does not know
webhookPOST_rejectUnknown(body, signature) ==
  IF signature.kind \in { "absent", "empty" }
    THEN WebhookAnswer(401, "Missing signature", FALSE, NoLog)
  ELSE IF ~verifySignature(body, signature, Secret)
    THEN WebhookAnswer(401, "Invalid signature", FALSE, NoLog)
  ELSE LET payload == JSONparse(body)
       IN  IF ~payload.ok \/ payload.null
                \/ payload.value.status \notin PaycrestOrderStatus
             THEN WebhookAnswer(500, "Webhook processing failed", TRUE, NoLog)
           ELSE WebhookAnswer(200, "received", TRUE, webhookSwitch(payload.value))

\* lines 267-332: the handler's answer to a request; parsed tells whether
\* JSON.parse was reached, logged is the line written by the switch
webhookPOST(body, signature) ==
  IF signature.kind \in { "absent", "empty" }
    THEN WebhookAnswer(401, "Missing signature", FALSE, NoLog)
  ELSE IF ~verifySignature(body, signature, Secret)
    THEN WebhookAnswer(401, "Invalid signature", FALSE, NoLog)
  ELSE LET payload == JSONparse(body)
       IN  IF ~payload.ok \/ payload.null
             THEN WebhookAnswer(500, "Webhook processing failed", TRUE, NoLog)
           ELSE WebhookAnswer(200, "received", TRUE, webhookSwitch(payload.value))

\* the update of lines 317-321 switched on: the stored status of the order is
\* overwritten with the status of the event
webhookUpdate_overwrite(sg, payload) ==
  [ r \in DOMAIN sg |->
      IF sg[r].paycrestOrder.id = payload.orderId
        THEN [ sg[r] EXCEPT !.payResult =
                 [ id |-> payload.orderId, status |-> payload.status ] ]
      ELSE sg[r] ]

\* the update switched on for events whose status differs from the stored one
webhookUpdate_ifDifferent(sg, payload) ==
  [ r \in DOMAIN sg |->
      IF /\ sg[r].paycrestOrder.id = payload.orderId
         /\ sg[r].payResult.status # payload.status
        THEN [ sg[r] EXCEPT !.payResult =
                 [ id |-> payload.orderId, status |-> payload.status ] ]
      ELSE sg[r] ]

\* lines 317-321: the update of the stored order status is commented out, the
\* handler changes nothing the saga holds
webhookUpdate(sg, payload) == sg

\* the status a run holds for its payout order: the status of the create-order
\* answer, then the status of the result its polling loop returned
Recorded(rec) ==
  IF rec.payResult.status # NoVal THEN rec.payResult.status
  ELSE rec.paycrestOrder.status

RecordedFor(o) ==
  IF \E r \in Runs : saga[r].paycrestOrder.id = o
    THEN Recorded(saga[CHOOSE r \in Runs : saga[r].paycrestOrder.id = o])
  ELSE NoVal

\* A webhook request is handled; the handler has no await between reading the
\* body and answering. wh keeps the request and the answer, and as history
\* the status held for the event's order when the request came in (prior)
\* and whether the request repeats the one handled before it (again).
WebhookPOST ==
  /\ wh.n < MaxWebhooks
  /\ \E req \in WebhookRequests :
         LET body == req.body
             signature == req.sig
             ans == webhookPOST(body, signature)
             applied == ans.code = 200
         IN  /\ wh' = [ n |-> wh.n + 1, body |-> body, sig |-> signature,
                        code |-> ans.code, json |-> ans.json,
                        parsed |-> ans.parsed, logged |-> ans.logged,
                        prior |-> RecordedFor(body.orderId),
                        again |-> wh.n > 0 /\ wh.body = body /\ wh.sig = signature ]
             /\ saga' = IF applied THEN webhookUpdate(saga, body) ELSE saga
             /\ raced' = IF applied /\ body.status = "settled"
                            /\ payOrders[body.orderId].status = "settled"
                          THEN raced \cup { r \in Runs :
                                 /\ saga[r].pc = "payPoll"
                                 /\ saga[r].paycrestOrder.id = body.orderId }
                          ELSE raced
  /\ UNCHANGED << active, swapStatus, payOrders, srcTxs, baseTxs, poll, retry, client, proxy >>

SagaStep(r) ==
  \/ Receive(r)
  \/ FetchSwap(r)
  \/ CheckCompat(r)
  \/ GasPrices(r)
  \/ GaslessExec(r)
  \/ BridgePoll(r)
  \/ FetchRate(r)
  \/ CreateOrder(r)
  \/ BaseSubmit(r)
  \/ BaseWait(r)
  \/ PayPoll(r)

EnvStep ==
  \/ \E s \in SwapIds : BridgeAdvance(s)
  \/ \E o \in OrderIds : PayoutAdvance(o)
  \/ \E t \in baseTxs : ChainConfirm(t)

NextConc == (\E r \in Runs : SagaStep(r)) \/ EnvStep

SpecConc == InitConc /\ [][NextConc]_vars


Next == (\E r \in Runs : SagaStep(r)) \/ EnvStep \/ WebhookPOST

Spec == Init /\ [][Next]_vars

----------------------------------------------------------------------------
(* pollWithTimeout, statement by statement *)

\* line 7: const startTime = Date.now(). elapsed is Date.now() - startTime,
\* fetches counts the calls of pollFn, slept tells whether the sleep of line
\* 16 ran since the last call of pollFn returned, raised is the error pollFn
\* threw.
PollCall(interval, timeout) ==
  [ NoPoll EXCEPT !.pc = "while", !.interval = interval, !.timeout = timeout ]

\* a call of pollWithTimeout with some interval and timeout, nothing else
\* running
InitPoll ==
  /\ saga = [ r \in Runs |-> IdleRun ]
  /\ active = {}
  /\ swapStatus = [ s \in SwapIds |-> "user_transfer_pending" ]
  /\ payOrders = [ o \in OrderIds |-> NoPayOrder ]
  /\ srcTxs = {}
  /\ baseTxs = {}
  /\ wh = NoWebhook
  /\ raced = {}
  /\ retry = NoRetry
  /\ client = NoClient
  /\ proxy = NoProxy
  /\ \E interval \in 0 .. MaxPollInterval, timeout \in 0 .. MaxPollTimeout :
       poll = PollCall(interval, timeout)

PollUnchanged ==
  UNCHANGED << saga, active, swapStatus, payOrders, srcTxs, baseTxs, wh, raced,
               retry, client, proxy >>

\* the errors pollFn can throw
FetchErrors == { "AxiosError", "TypeError" }

\* the loop without its deadline: while (true)
PollWhile_noDeadline ==
  /\ poll.pc = "while"
  /\ poll' = [ poll EXCEPT !.pc = "fetch" ]
  /\ PollUnchanged

\* line 9: the loop condition; line 19: throw once it is false
PollWhile ==
  /\ poll.pc = "while"
  /\ poll' = IF poll.elapsed < poll.timeout
               THEN [ poll EXCEPT !.pc = "fetch" ]
             ELSE [ poll EXCEPT !.pc = "done", !.out = PollTimeoutError ]
  /\ PollUnchanged

\* the loop with the call of pollFn in a try block whose catch goes on to
\* the sleep
PollFetch_catches ==
  /\ poll.pc = "fetch"
  /\ poll.fetches < MaxFetches
  /\ \E latency \in 0 .. MaxPollLatency,
        answer \in { "terminal", "other" } \cup FetchErrors :
       LET called == [ poll EXCEPT !.fetches = @ + 1, !.elapsed = @ + latency,
                                   !.slept = FALSE ]
           result == [ seq |-> called.fetches, terminal |-> answer = "terminal" ]
       IN  poll' = CASE answer \in FetchErrors ->
                          [ called EXCEPT !.pc = "sleep", !.raised = answer ]
                     [] result.terminal ->
                          [ called EXCEPT !.pc = "done", !.out = "return",
                                          !.result = result ]
                     [] OTHER ->
                          [ called EXCEPT !.pc = "sleep", !.result = result ]
  /\ PollUnchanged

\* the loop with checkCondition left out for the first result
PollFetch_skipsFirst ==
  /\ poll.pc = "fetch"
  /\ poll.fetches < MaxFetches
  /\ \E latency \in 0 .. MaxPollLatency,
        answer \in { "terminal", "other" } \cup FetchErrors :
       LET called == [ poll EXCEPT !.fetches = @ + 1, !.elapsed = @ + latency,
                                   !.slept = FALSE ]
           result == [ seq |-> called.fetches, terminal |-> answer = "terminal" ]
       IN  poll' = CASE answer \in FetchErrors ->
                          [ called EXCEPT !.pc = "done", !.raised = answer,
                                          !.out = answer ]
                     [] result.terminal /\ result.seq > 1 ->
                          [ called EXCEPT !.pc = "done", !.out = "return",
                                          !.result = result ]
                     [] OTHER ->
                          [ called EXCEPT !.pc = "sleep", !.result = result ]
  /\ PollUnchanged

\* lines 10-14: await pollFn(), which takes some time and throws or returns
\* a result; an error it throws leaves pollWithTimeout as it is; the result
\* is returned if checkCondition holds of it
PollFetch ==
  /\ poll.pc = "fetch"
  /\ poll.fetches < MaxFetches
  /\ \E latency \in 0 .. MaxPollLatency,
        answer \in { "terminal", "other" } \cup FetchErrors :
       LET called == [ poll EXCEPT !.fetches = @ + 1, !.elapsed = @ + latency,
                                   !.slept = FALSE ]
           result == [ seq |-> called.fetches, terminal |-> answer = "terminal" ]
       IN  poll' = CASE answer \in FetchErrors ->
                          [ called EXCEPT !.pc = "done", !.raised = answer,
                                          !.out = answer ]
                     [] result.terminal ->
                          [ called EXCEPT !.pc = "done", !.out = "return",
                                          !.result = result ]
                     [] OTHER ->
                          [ called EXCEPT !.pc = "sleep", !.result = result ]
  /\ PollUnchanged

\* a timer that fires at once, whatever its delay
setTimeoutDelay_instant(delay) == 0

\* the time, in ms, after which setTimeout(resolve, delay) runs resolve: the
\* timers of the runtime run a delay below 1 ms as 1 ms
setTimeoutDelay(delay) == IF delay < 1 THEN 1 ELSE delay

\* line 16: await new Promise(resolve => setTimeout(resolve, interval))
PollSleep ==
  /\ poll.pc = "sleep"
  /\ poll' = [ poll EXCEPT !.pc = "while",
                           !.elapsed = @ + setTimeoutDelay(poll.interval),
                           !.slept = TRUE ]
  /\ PollUnchanged

NextPoll == PollWhile \/ PollFetch \/ PollSleep

SpecPoll == InitPoll /\ [][NextPoll]_vars

\* the same call under the scheduling of the event loop: the continuation of
\* an await runs once its promise has settled, and every call of pollFn and
\* every timer settles
SpecPollFair == InitPoll /\ [][NextPoll]_vars /\ WF_vars(NextPoll)

----------------------------------------------------------------------------
(* exponentialBackoff, statement by statement *)

\* the call exponentialBackoff(fn, maxRetries, baseDelay) at the head of its
\* for loop; calls counts the calls of fn, errors holds what they threw,
\* delays the timeouts waited for, in order
BackoffCall(maxRetries, baseDelay) ==
  [ NoRetry EXCEPT !.pc = "for", !.maxRetries = maxRetries,
                   !.baseDelay = baseDelay ]

\* a call of exponentialBackoff with some maxRetries and baseDelay, nothing
\* else running
InitRetry ==
  /\ saga = [ r \in Runs |-> IdleRun ]
  /\ active = {}
  /\ swapStatus = [ s \in SwapIds |-> "user_transfer_pending" ]
  /\ payOrders = [ o \in OrderIds |-> NoPayOrder ]
  /\ srcTxs = {}
  /\ baseTxs = {}
  /\ wh = NoWebhook
  /\ raced = {}
  /\ poll = NoPoll
  /\ client = NoClient
  /\ proxy = NoProxy
  /\ \E maxRetries \in -1 .. MaxRetries, baseDelay \in 0 .. MaxBaseDelay :
       retry = BackoffCall(maxRetries, baseDelay)

RetryUnchanged ==
  UNCHANGED << saga, active, swapStatus, payOrders, srcTxs, baseTxs, wh, raced,
               poll, client, proxy >>

\* a loop that tests its condition only after the first attempt
RetryFor_atLeastOnce ==
  /\ retry.pc = "for"
  /\ retry' = IF retry.i < retry.maxRetries \/ retry.i = 0
                THEN [ retry EXCEPT !.pc = "call" ]
              ELSE [ retry EXCEPT !.pc = "done", !.out = "return",
                                  !.value = Undefined ]
  /\ RetryUnchanged

\* line 27: the loop condition i < maxRetries; the function ends without a
\* return statement once it is false
RetryFor ==
  /\ retry.pc = "for"
  /\ retry' = IF retry.i < retry.maxRetries
                THEN [ retry EXCEPT !.pc = "call" ]
              ELSE [ retry EXCEPT !.pc = "done", !.out = "return",
                                  !.value = Undefined ]
  /\ RetryUnchanged

\* line 29: return await fn(), which returns a result or throws
RetryCall ==
  /\ retry.pc = "call"
  /\ \E answer \in { "result" } \cup FetchErrors :
       LET n == retry.calls + 1
           outcome == [ kind |-> answer, n |-> n ]
       IN  retry' = IF answer = "result"
                      THEN [ retry EXCEPT !.pc = "done", !.calls = n,
                                          !.out = "return", !.value = outcome ]
                    ELSE [ retry EXCEPT !.pc = "catch", !.calls = n,
                                        !.errors = Append(@, outcome) ]
  /\ RetryUnchanged

\* line 31 with maxRetries in the place of maxRetries - 1
lastAttempt_offByOne(i, maxRetries) == i = maxRetries

\* line 31: i === maxRetries - 1
lastAttempt(i, maxRetries) == i = maxRetries - 1

\* lines 30-31: the catch block rethrows the error of the last attempt
RetryCatch ==
  /\ retry.pc = "catch"
  /\ retry' = IF lastAttempt(retry.i, retry.maxRetries)
                THEN [ retry EXCEPT !.pc = "done", !.out = "throw",
                                    !.value = retry.errors[Len(retry.errors)] ]
              ELSE [ retry EXCEPT !.pc = "delay" ]
  /\ RetryUnchanged

\* line 33 with the exponent one too high
backoffDelay_shifted(baseDelay, i) == baseDelay * 2^(i + 1)

\* line 33: baseDelay * Math.pow(2, i)
backoffDelay(baseDelay, i) == baseDelay * 2^i

\* lines 33-34 and i++: wait for the delay, go on to the next attempt
RetryDelay ==
  /\ retry.pc = "delay"
  /\ retry' = [ retry EXCEPT
                  !.pc = "for", !.i = @ + 1,
                  !.delays = Append(@, backoffDelay(retry.baseDelay, retry.i)) ]
  /\ RetryUnchanged

NextRetry == RetryFor \/ RetryCall \/ RetryCatch \/ RetryDelay

SpecRetry == InitRetry /\ [][NextRetry]_vars

----------------------------------------------------------------------------
(* The client utility pollLayerSwapStatus *)

\* the call pollLayerSwapStatus(swapId, onStatusChange), with the callback
\* or without it
ClientCall(withCallback) ==
  [ NoClient EXCEPT !.pc = "polling", !.withCallback = withCallback ]

\* a call of the client utility, nothing else running
InitClient ==
  /\ saga = [ r \in Runs |-> IdleRun ]
  /\ active = {}
  /\ swapStatus = [ s \in SwapIds |-> "user_transfer_pending" ]
  /\ payOrders = [ o \in OrderIds |-> NoPayOrder ]
  /\ srcTxs = {}
  /\ baseTxs = {}
  /\ wh = NoWebhook
  /\ raced = {}
  /\ poll = NoPoll
  /\ retry = NoRetry
  /\ proxy = NoProxy
  /\ \E withCallback \in BOOLEAN : client = ClientCall(withCallback)

\* getSwapStatus that calls back without remembering the status
getSwapStatus_forgets(c, status) ==
  IF c.withCallback /\ status # c.lastStatus
    THEN [ c EXCEPT !.notified = Append(@, status) ]
  ELSE c

\* lines 15-19 of getSwapStatus, for a response with the given status:
\* remember the status and call onStatusChange when it differs from lastStatus
getSwapStatus(c, status) ==
  IF c.withCallback /\ status # c.lastStatus
    THEN [ c EXCEPT !.lastStatus = status, !.notified = Append(@, status) ]
  ELSE c

\* lines 30-35: one pass of the loop of pollWithTimeout with getSwapStatus
\* as pollFn and isComplete as checkCondition; the proxy answers with any
\* status of the type, or the request fails
ClientPoll ==
  /\ client.pc = "polling"
  /\ \E fetch \in FetchOutcomes(ClientInterval), status \in LayerSwapStatus :
       LET fetched == [ ok |-> fetch.ok, value |-> [ status |-> status ] ]
           got == IF fetch.ok
                    THEN [ getSwapStatus(client, status) EXCEPT !.prev = status ]
                  ELSE client
           p == pollBody(client.elapsed, fetched, fetch.latency,
                         isComplete(fetched.value), ClientInterval, ClientTimeout)
       IN  client' =
             CASE p.out = "fetchError" ->
                    [ got EXCEPT !.pc = "done", !.out = "AxiosError" ]
               [] p.out = "timeout" ->
                    [ got EXCEPT !.pc = "done", !.elapsed = p.elapsed,
                                 !.out = PollTimeoutError ]
               [] p.out = "loop" -> [ got EXCEPT !.elapsed = p.elapsed ]
               [] p.out = "return" ->
                    [ got EXCEPT !.pc = "done", !.elapsed = p.elapsed,
                                 !.out = "return", !.result = p.result.status ]
  /\ UNCHANGED << saga, active, swapStatus, payOrders, srcTxs, baseTxs, wh, raced,
                  poll, retry, proxy >>

NextClient == ClientPoll

SpecClient == InitClient /\ [][NextClient]_vars

----------------------------------------------------------------------------
(* The proxy route *)

PAYCREST_API == "https://api.paycrest.io/v1"
LAYERSWAP_API == "https://api.layerswap.io/api/v2"

\* the endpoint prefixes of the route, as sequences of characters
Currencies == << "/", "c", "u", "r", "r", "e", "n", "c", "i", "e", "s" >>
Institutions == << "/", "i", "n", "s", "t", "i", "t", "u", "t", "i", "o", "n", "s" >>
Rates == << "/", "r", "a", "t", "e", "s" >>
Sender == << "/", "s", "e", "n", "d", "e", "r" >>
Swaps == << "/", "s", "w", "a", "p", "s" >>
VerifyAccount == << "/", "v", "e", "r", "i", "f", "y", "-", "a", "c", "c", "o", "u", "n", "t" >>

\* values of the endpoint parameter: every prefix of the route alone, followed
\* by a path and followed by one more character; the empty string; strings
\* that start with none of the prefixes, one of them short of /swaps by a
\* character, one without the leading slash and one with /swaps further on
ProxyEndpoints ==
  { p \o t : p \in { Currencies, Institutions, Rates, Sender, Swaps, VerifyAccount },
             t \in { << >>, << "/", "1" >>, << "x" >> } }
    \cup { << >>, << "/", "a", "d", "m", "i", "n" >>, << "/", "s", "w", "a", "p" >>, << "s", "w", "a", "p", "s" >>, << "/", "x", "/", "s", "w", "a", "p", "s" >> }

\* String.prototype.startsWith
startsWith(s, p) == Len(s) >= Len(p) /\ SubSeq(s, 1, Len(p)) = p

\* a route that sends every endpoint it does not know to the payout provider
proxyBaseUrl_noAllowList(method, endpoint) ==
  IF startsWith(endpoint, Swaps) THEN LAYERSWAP_API ELSE PAYCREST_API

\* lines 13-24 of GET and 51-62 of POST: the base URL for the endpoint, ""
\* where the handler answers "Invalid endpoint"
proxyBaseUrl(method, endpoint) ==
  CASE method = "GET" /\ ( \/ startsWith(endpoint, Currencies)
                           \/ startsWith(endpoint, Institutions)
                           \/ startsWith(endpoint, Rates)
                           \/ startsWith(endpoint, Sender) ) -> PAYCREST_API
    [] method = "POST" /\ ( \/ startsWith(endpoint, VerifyAccount)
                            \/ startsWith(endpoint, Sender) ) -> PAYCREST_API
    [] startsWith(endpoint, Swaps) -> LAYERSWAP_API
    [] OTHER -> ""

\* a GET or POST request to the route: with or without the endpoint
\* parameter, and for POST with a body that is JSON or is not
ProxyRequest(method, hasEndpoint, endpoint, bodyIsJson) ==
  [ NoProxy EXCEPT !.pc = "endpoint", !.method = method,
                   !.hasEndpoint = hasEndpoint, !.endpoint = endpoint,
                   !.bodyIsJson = bodyIsJson ]

\* one request to the proxy route, nothing else running
InitProxy ==
  /\ saga = [ r \in Runs |-> IdleRun ]
  /\ active = {}
  /\ swapStatus = [ s \in SwapIds |-> "user_transfer_pending" ]
  /\ payOrders = [ o \in OrderIds |-> NoPayOrder ]
  /\ srcTxs = {}
  /\ baseTxs = {}
  /\ wh = NoWebhook
  /\ raced = {}
  /\ poll = NoPoll
  /\ retry = NoRetry
  /\ client = NoClient
  /\ \E method \in { "GET", "POST" }, hasEndpoint \in BOOLEAN,
        endpoint \in ProxyEndpoints, bodyIsJson \in BOOLEAN :
       /\ ~hasEndpoint => endpoint = << >>
       /\ method = "GET" => ~bodyIsJson
       /\ proxy = ProxyRequest(method, hasEndpoint, endpoint, bodyIsJson)

ProxyUnchanged ==
  UNCHANGED << saga, active, swapStatus, payOrders, srcTxs, baseTxs, wh, raced,
               poll, retry, client >>

\* the answer NextResponse.json({ error }, { status })
ProxyAnswer(code, error) ==
  [ proxy EXCEPT !.pc = "done", !.code = code, !.error = error ]

\* lines 8-11 and 44-47: searchParams.get('endpoint') is null without the
\* parameter, and !endpoint holds of null and of the empty string
ProxyEndpoint ==
  /\ proxy.pc = "endpoint"
  /\ proxy' = IF ~proxy.hasEndpoint \/ proxy.endpoint = << >>
                THEN ProxyAnswer(400, "Missing endpoint parameter")
              ELSE [ proxy EXCEPT !.pc = IF proxy.method = "POST"
                                           THEN "body" ELSE "route" ]
  /\ ProxyUnchanged

\* line 49 of POST: await request.json() throws on a body that is not JSON,
\* and the catch block answers
ProxyBody ==
  /\ proxy.pc = "body"
  /\ proxy' = IF ~proxy.bodyIsJson
                THEN ProxyAnswer(500, "Internal server error")
              ELSE [ proxy EXCEPT !.pc = "route" ]
  /\ ProxyUnchanged

\* lines 13-24 and 51-62: choose the provider or answer "Invalid endpoint"
ProxyRoute ==
  /\ proxy.pc = "route"
  /\ LET baseUrl == proxyBaseUrl(proxy.method, proxy.endpoint)
     IN  proxy' = IF baseUrl = ""
                    THEN ProxyAnswer(400, "Invalid endpoint")
                  ELSE [ proxy EXCEPT !.pc = "fetch", !.baseUrl = baseUrl ]
  /\ ProxyUnchanged

\* lines 26-35 and 64-75: the request to the provider; fetch or
\* response.json() may throw, otherwise the data is answered with status 200
ProxyFetch ==
  /\ proxy.pc = "fetch"
  /\ \E outcome \in { "ok", "fetchThrows", "jsonThrows" } :
       LET sent == [ proxy EXCEPT !.outbound =
                       [ base |-> proxy.baseUrl, method |-> proxy.method,
                         endpoint |-> proxy.endpoint ] ]
       IN  proxy' = IF outcome = "ok"
                      THEN [ sent EXCEPT !.pc = "done", !.code = 200 ]
                    ELSE [ sent EXCEPT !.pc = "done", !.code = 500,
                                       !.error = "Internal server error" ]
  /\ ProxyUnchanged

NextProxy == ProxyEndpoint \/ ProxyBody \/ ProxyRoute \/ ProxyFetch

SpecProxy == InitProxy /\ [][NextProxy]_vars

----------------------------------------------------------------------------
(* Properties *)

Done(r) == saga[r].pc = "done"

\* the settlement transfers submitted to the receive address of order o
TransfersTo(o) == { t \in baseTxs : t.to = ReceiveAddress(o) }

\* C1: for every payout order identifier at most one settlement transfer is
\* ever submitted to the chain, over any runs of the saga.
C1_OneTransferPerOrder ==
  \A o \in OrderIds : Cardinality(TransfersTo(o)) <= 1

\* a transaction hash is recorded for the order: some run holds the hash that
\* executeBaseTransfer returned for it
HashRecorded(o) ==
  \E q \in Runs : saga[q].paycrestOrder.id = o /\ saga[q].baseTxHash # 0

\* C2: a settlement transfer attempted for an order whose transaction hash is
\* already recorded is rejected with DoubleSpendGuard, nothing is submitted
\* to the chain and the recorded hashes stay as they are.
C2_DoubleSpendGuard ==
  [][ \A r \in Runs :
        ( /\ saga[r].pc = "baseSubmit"
          /\ saga'[r].pc # "baseSubmit"
          /\ HashRecorded(saga[r].paycrestOrder.id) )
        => ( /\ baseTxs' = baseTxs
             /\ saga'[r].thrown = "DoubleSpendGuard"
             /\ \A q \in Runs : saga'[q].baseTxHash = saga[q].baseTxHash ) ]_vars

\* C3: when a signed webhook reports settled for an order that the provider
\* has settled while the run's payout polling is still waiting on pending,
\* the run ends with final status settled and with one settlement transfer.
C3_WebhookWinsRace ==
  \A r \in raced :
    Done(r) => /\ saga[r].resp.code = 200
               /\ saga[r].resp.finalStatus.status = "settled"
               /\ saga[r].submits = 1

\* the forward moves of the status held for a payout order
PayoutForward(a, b) ==
  \/ a = NoVal /\ b \in PaycrestOrderStatus
  \/ a = "pending" /\ b \in PaycrestTerminal

RecordedUnchanged == \A r \in Runs : Recorded(saga'[r]) = Recorded(saga[r])

\* C4: the status held for an order only moves forward, whatever webhooks and
\* poll results interleave, and a webhook whose status is no forward move
\* from the status held leaves it as it is.
C4_StatusMonotone ==
  [][ /\ \A r \in Runs :
           Recorded(saga'[r]) # Recorded(saga[r])
             => PayoutForward(Recorded(saga[r]), Recorded(saga'[r]))
      /\ ( wh'.n # wh.n /\ ~PayoutForward(wh'.prior, wh'.body.status) )
           => RecordedUnchanged ]_vars

\* a stale event was accepted: it reports pending for an order whose terminal
\* status the run already held
C4_Witness ==
  /\ wh.code = 200
  /\ wh.body.status = "pending"
  /\ wh.prior \in PaycrestTerminal

\* C5: handling an accepted webhook event a second time in a row changes
\* nothing the saga holds.
C5_WebhookIdempotent ==
  [][ ( wh'.n # wh.n /\ wh'.again /\ wh'.code = 200 ) => saga' = saga ]_vars

\* the same signed event was accepted twice in a row, and between the two the
\* run's poll had moved the status it holds
C5_Witness ==
  /\ wh.again
  /\ wh.code = 200
  /\ wh.body = EventBody("o1", "pending")
  /\ wh.prior = "settled"

\* the signature header is the digest of the body under the shared secret
SignatureValid(w) == w.sig = Hmac(Secret, w.body)

\* C6: a webhook request without signature header, or with one that is not
\* the HMAC of the raw body under the secret, is answered 401 whatever the
\* body, the body is not parsed, and nothing the saga or the provider holds
\* changes.
C6_InvalidSignatureRejected ==
  [][ ( wh'.n # wh.n /\ ~SignatureValid(wh') )
        => /\ wh'.code = 401
           /\ ~wh'.parsed
           /\ wh'.logged = NoLog
           /\ saga' = saga
           /\ payOrders' = payOrders ]_vars

\* a body that is not JSON came with the digest of another key and was
\* refused unparsed
C6_Witness ==
  /\ wh.n > 0
  /\ wh.body = TextBody
  /\ wh.sig = Hmac("other", TextBody)
  /\ wh.code = 401
  /\ ~wh.parsed

\* C7, as claimed: every webhook request that passes signature verification
\* is answered { received: true }, whatever its payload.
C7_AlwaysReceived ==
  ( wh.n > 0 /\ SignatureValid(wh) ) => ( wh.code = 200 /\ wh.json = "received" )

\* C7, amended: every webhook request that passes signature verification and
\* whose body is JSON other than null is answered { received: true },
\* whatever status it reports.
C7_ReceivedWhenJson ==
  ( wh.n > 0 /\ SignatureValid(wh) /\ wh.body.kind \in { "object", "scalar" } )
    => ( wh.code = 200 /\ wh.json = "received" )

\* a signed event with a status the handler has no case for was answered
\* { received: true }
C7_Witness ==
  /\ wh.n > 0
  /\ SignatureValid(wh)
  /\ wh.body = EventBody("o1", "unknown")
  /\ wh.code = 200
  /\ wh.json = "received"

BridgeFailed == { "failed", "cancelled", "expired" }

\* C8: when the polling of step 4 fetches the swap with status failed,
\* cancelled or expired, the saga ends there with a bridge failure, and the
\* run has fetched no rate, created no order and submitted no transfer.
C8_BridgeFailureEndsSaga ==
  [][ \A r \in Runs :
        ( /\ saga[r].pc = "bridgePoll"
          /\ saga'[r] # saga[r]
          /\ saga'[r].thrown # "AxiosError"
          /\ swapStatus[saga[r].body.swapId] \in BridgeFailed )
        => ( /\ saga'[r].pc = "done"
             /\ saga'[r].resp = ErrorResponse(500, "Bridge failed")
             /\ saga'[r].rateCalls = 0
             /\ saga'[r].orderCalls = 0
             /\ saga'[r].submits = 0 ) ]_vars

\* the errors the handler can catch, other than the polling timeout
OtherErrors ==
  { "SyntaxError", "TypeError", "AxiosError", "GaslessError", "GasPriceError",
    "Account not compatible with gasless transactions", "ContractWriteError",
    "WaitForReceiptError" }

\* the bridge polling of the run ended by its deadline
BridgeTimedOut(r) ==
  Done(r) /\ saga[r].thrown = PollTimeoutError /\ saga[r].rateCalls = 0

\* C9: when the bridge polling reaches its deadline, the saga's answer differs
\* from the bridge failure answer and from the answer to every other error.
C9_TimeoutDistinct ==
  \A r \in Runs :
    BridgeTimedOut(r)
      => /\ saga[r].resp # ErrorResponse(500, "Bridge failed")
         /\ \A e \in OtherErrors : saga[r].resp # catchResponse(e)

\* C10: when the submission of the settlement transfer throws, the saga
\* reports a settlement failure that carries a broadcast-uncertainty flag, and
\* the run has invoked the transfer once.
C10_SettlementFailureFlag ==
  \A r \in Runs :
    ( Done(r) /\ saga[r].thrown = "ContractWriteError" )
      => /\ saga[r].resp.error = "SettlementFailure"
         /\ "broadcastUncertain" \in DOMAIN saga[r].resp
         /\ saga[r].submits = 1

\* the source-chain transfers that went out for run r
SourceTxOf(r) == { t \in srcTxs : t.hash = TxHash(r, 1) }

\* the run ended with a failure response
Failed(r) == Done(r) /\ saga[r].resp.code # 200

\* the errors thrown before executeStarknetTransfer returned
PreTransferErrors ==
  { "SyntaxError", "TypeError", "AxiosError", "GasPriceError", "GaslessError",
    "Account not compatible with gasless transactions" }

\* the answers given to the failures of steps 1 to 3
PreTransferAnswers ==
  { ErrorResponse(400, "Invalid request"),
    ErrorResponse(400, "Invalid swap state") }
    \cup { catchResponse(e) : e \in PreTransferErrors }

\* C11: a failure response tells whether the source-chain transfer of step 3
\* had been submitted: the response to a failure after step 3 succeeded is
\* none of the responses given to a failure before step 3.
C11_FailureTellsTransfer ==
  \A r \in Runs :
    ( Failed(r) /\ saga[r].starknetTxHash # 0 )
      => saga[r].resp \notin PreTransferAnswers

\* a required field is absent or empty in the body
FieldsMissing(body) ==
  \/ body = NullJson
  \/ body # BadJson /\ \E f \in FieldSet : body[f] = ""

\* C12: a request in which a required field is absent or empty is answered
\* 400 with a validation error, and the run has called no provider and sent
\* no transaction: it holds nothing but the body and that answer.
C12_MissingFieldRejected ==
  \A r \in Runs :
    ( saga[r].pc # "idle" /\ FieldsMissing(saga[r].body) )
      => /\ saga[r] = [ IdleRun EXCEPT
                          !.pc = "done", !.body = saga[r].body,
                          !.resp = ErrorResponse(400, "Invalid request") ]
         /\ SourceTxOf(r) = {}

SwapFetched(r) == saga[r].swap # NoSwap

\* the swap as fetched is waiting for the user transfer and has a deposit
\* action
SwapValid(sw) == sw.status = "user_transfer_pending" /\ sw.actions # "none"

\* C13: a source-chain transfer is submitted only for a run whose fetched
\* swap had status user_transfer_pending and a deposit action; a run whose
\* fetched swap had not is answered with the invalid swap error and has sent
\* no transfer, polled nothing and called the payout provider for nothing.
C13_TransferOnlyForPendingSwap ==
  \A r \in Runs :
    /\ SourceTxOf(r) # {} => SwapValid(saga[r].swap)
    /\ ( SwapFetched(r) /\ ~SwapValid(saga[r].swap) )
         => /\ saga[r] = [ IdleRun EXCEPT
                             !.pc = "done", !.body = saga[r].body,
                             !.swap = saga[r].swap,
                             !.resp = ErrorResponse(400, "Invalid swap state") ]
            /\ SourceTxOf(r) = {}

\* a swap fetched after the bridge had received a transfer was refused, and
\* a swap without deposit action
C13_Witness ==
  \E r \in Runs :
    /\ Done(r)
    /\ saga[r].swap.status \in { "ls_transfer_pending", "user_transfer_pending" }
    /\ saga[r].swap.actions \in { "none", "calls" }
    /\ ~SwapValid(saga[r].swap)
    /\ saga[r].resp = ErrorResponse(400, "Invalid swap state")

IneligibleError == "Account not compatible with gasless transactions"

\* the answers of the saga to every failure other than an ineligible account
OtherFailureAnswers ==
  { ErrorResponse(400, "Invalid request"),
    ErrorResponse(400, "Invalid swap state"),
    ErrorResponse(500, "Bridge failed") }
    \cup { catchResponse(e) :
             e \in (OtherErrors \ { IneligibleError }) \cup { PollTimeoutError } }

\* C14: when the account is not eligible for gas sponsorship, the saga's
\* answer is none of the answers it gives to other failures, and no
\* source-chain transaction went out for the run.
C14_IneligibleDistinct ==
  \A r \in Runs :
    ( Done(r) /\ saga[r].thrown = IneligibleError )
      => /\ saga[r].resp \notin OtherFailureAnswers
         /\ SourceTxOf(r) = {}

\* C15: a run requests the payout rate at most once, and once when it ends
\* in success; the request comes after the bridge polling returned completed
\* and asks the rate for the quote's min_receive_amount.
C15_RateOnceForMinAmount ==
  \A r \in Runs :
    /\ saga[r].rateCalls <= 1
    /\ ( Done(r) /\ saga[r].resp.code = 200 ) => saga[r].rateCalls = 1
    /\ saga[r].rateCalls = 1
         => /\ saga[r].bridgeResult = "completed"
            /\ saga[r].rateAmount = Quote.min_receive_amount

\* the orders the payout provider holds
OrdersCreated == { o \in OrderIds : payOrders[o].status # NoVal }

\* C16: over any number of submissions of the request for one swap, at most
\* one payout order is created at the provider (every request names the one
\* swap of SwapIds).
C16_OneOrderPerRequest ==
  Cardinality(SwapIds) = 1 => Cardinality(OrdersCreated) <= 1

\* the settlement transfers run r submitted
BaseTxOf(r) == { t \in baseTxs : \E n \in 1 .. saga[r].submits : t.hash = TxHash(r, n) }

\* C17: the settlement transfer of a run carries, in base units, the quote's
\* receive_amount plus the order's senderFee and transactionFee, goes to the
\* order's receiveAddress, and is the one amount the run computed.
C17_TransferAmount ==
  \A r \in Runs : \A t \in BaseTxOf(r) :
    /\ t.amount = Quote.receive_amount + saga[r].paycrestOrder.senderFee
                    + saga[r].paycrestOrder.transactionFee
    /\ t.to = saga[r].paycrestOrder.receiveAddress
    /\ t.amount = saga[r].totalAmount

\* C18: executeBaseTransfer has returned the hash, and the payout polling
\* runs or has run, only when the chain has confirmed the transaction of
\* that hash.
C18_ConfirmedBeforePolling ==
  \A r \in Runs :
    ( saga[r].pc = "payPoll" \/ saga[r].baseTxHash # 0
        \/ saga[r].payResult # NoResult )
      => \E t \in BaseTxOf(r) : t.hash = saga[r].baseTxHash /\ t.confirmed

\* the payout polling is in its second pass after the transfer was confirmed
C18_Witness ==
  \E r \in Runs :
    /\ saga[r].pc = "payPoll"
    /\ saga[r].elapsed > 0
    /\ \E t \in BaseTxOf(r) : t.hash = saga[r].baseTxHash /\ t.confirmed

\* the runs whose settlement transfer is submitted and not yet confirmed to
\* executeBaseTransfer
InFlight == { r \in Runs : saga[r].pc = "baseWait" }

\* C19: no two settlement submissions from the settlement account are in
\* flight (submitted, confirmation awaited) at the same time.
C19_SubmissionsSerialized == Cardinality(InFlight) <= 1

\* C20: whenever a call of pollWithTimeout completes, by returning or by
\* throwing, it has called pollFn at least once, whatever its interval and
\* its timeout (a timeout of 0 included).
C20_AtLeastOneFetch == poll.pc = "done" => poll.fetches >= 1

\* C21: whenever pollWithTimeout throws the timeout error, no sleep has
\* occurred since the last call of pollFn returned: it sleeps only between
\* two fetch attempts, never after the final one.
C21_NoSleepAfterFinalFetch == poll.out = PollTimeoutError => ~poll.slept

\* C22: whenever pollWithTimeout completes, by returning or by throwing, the
\* time elapsed since it started is at most its timeout plus one interval plus
\* the longest latency of one call of pollFn.
C22_ElapsedBounded ==
  poll.pc = "done" =>
    poll.elapsed <= poll.timeout + poll.interval + MaxPollLatency

\* a call that timed out one tick short of the bound, after a sleep of a
\* positive interval and a slow last fetch
C22_Witness ==
  /\ poll.out = PollTimeoutError
  /\ poll.interval > 0
  /\ poll.fetches >= 2
  /\ poll.elapsed = poll.timeout + poll.interval + MaxPollLatency - 1

\* C23: an error thrown by pollFn ends pollWithTimeout at once with that same
\* error, no sleep and no further call of pollFn following it, and that
\* outcome is not the timeout error; the timeout error is thrown only when the
\* deadline has passed and no fetched result satisfied checkCondition.
C23_FetchErrorPropagates ==
  /\ poll.raised # NoVal =>
       /\ poll.pc = "done"
       /\ poll.out = poll.raised
       /\ poll.out # PollTimeoutError
       /\ ~poll.slept
  /\ poll.out = PollTimeoutError =>
       /\ poll.raised = NoVal
       /\ poll.elapsed >= poll.timeout
       /\ ~poll.result.terminal

\* pollFn threw in its second call, after a first result that did not end
\* the loop and one sleep
C23_Witness ==
  /\ poll.pc = "done"
  /\ poll.raised = "TypeError"
  /\ poll.fetches = 2
  /\ poll.result.seq = 1

\* the swaps and the orders whose status a run is polling
BridgePolling(s) == { r \in Runs : saga[r].pc = "bridgePoll" /\ saga[r].body.swapId = s }
PayPolling(o) == { r \in Runs : saga[r].pc = "payPoll" /\ saga[r].paycrestOrder.id = o }

C25_RetryContract ==
  retry.maxRetries >= 1 =>
    /\ retry.calls <= retry.maxRetries
    /\ Len(retry.errors) <= retry.calls
    /\ retry.out = "return" =>
         /\ retry.value = [ kind |-> "result", n |-> retry.calls ]
         /\ Len(retry.errors) = retry.calls - 1
    /\ (retry.pc = "done" /\ Len(retry.errors) = retry.calls) =>
         /\ retry.calls = retry.maxRetries
         /\ retry.out = "throw"
         /\ retry.value = retry.errors[retry.calls]
    /\ Len(retry.errors) = retry.maxRetries => retry.pc \in { "catch", "done" }

\* three attempts failed with different errors and the last one was thrown
C25_Witness ==
  /\ retry.pc = "done"
  /\ retry.maxRetries = 3
  /\ retry.out = "throw"
  /\ retry.value = [ kind |-> "TypeError", n |-> 3 ]
  /\ retry.errors[1].kind = "AxiosError"

\* C26: the delay exponentialBackoff waits after its i-th failed attempt (i
\* from 0) is baseDelay * 2^i; it waits only between two attempts, and not
\* after the final failed attempt.
C26_BackoffDelays ==
  /\ \A k \in 1 .. Len(retry.delays) :
       retry.delays[k] = retry.baseDelay * 2^(k - 1)
  /\ Len(retry.delays) <= Len(retry.errors)
  /\ Len(retry.delays) >= Len(retry.errors) - 1
  /\ (retry.pc = "done" /\ retry.calls > 0) =>
       Len(retry.delays) = retry.calls - 1

\* two failed attempts, delays of 2 and 4, then the third attempt ended the
\* call
C26_Witness ==
  /\ retry.pc = "done"
  /\ retry.baseDelay = 2
  /\ retry.delays = << 2, 4 >>
  /\ retry.calls = 3

\* the HTTP statuses of a transient provider error: 429 and 5xx
TransientStatuses == { 429 } \cup (500 .. 599)

\* C27: a transient provider error (5xx or 429) on the rate fetch is retried
\* before it is surfaced: a run that ended on such an answer has called the
\* rate endpoint more than once.
C27_TransientRateErrorRetried ==
  \A r \in Runs :
    (saga[r].pc = "done" /\ saga[r].rateStatus \in TransientStatuses)
      => saga[r].rateCalls > 1

\* C28: when one of the first two polls of the loop of pollLayerSwapStatus
\* fetches the swap with status completed, the run goes on to the rate fetch
\* and no timeout is thrown.
C28_QuickBridgeProceeds ==
  [][ \A r \in Runs :
        ( /\ saga[r].pc = "bridgePoll"
          /\ saga[r].polls < 2
          /\ saga'[r] # saga[r]
          /\ saga'[r].thrown # "AxiosError"
          /\ swapStatus[saga[r].body.swapId] = "completed" )
        => ( /\ saga'[r].pc = "rate"
             /\ saga'[r].bridgeResult = "completed"
             /\ saga'[r].thrown = NoVal
             /\ saga'[r].resp = NoResp ) ]_vars

\* the second poll fetched the completed swap and the rate fetch is next
C28_Witness ==
  \E r \in Runs :
    /\ saga[r].pc = "rate"
    /\ saga[r].polls = 2
    /\ saga[r].bridgeResult = "completed"
    /\ saga[r].thrown = NoVal

\* the steps of a run that have started, and those that have completed
\* successfully
BridgePollStarted(r) ==
  saga[r].pc = "bridgePoll" \/ saga[r].bridgeResult # NoVal
    \/ saga[r].thrown = PollTimeoutError
PayPollStarted(r) == saga[r].pc = "payPoll" \/ saga[r].payResult # NoResult
SourceTransferDone(r) ==
  saga[r].starknetTxHash # 0 /\ saga[r].starknetTxHash \in { t.hash : t \in srcTxs }
BridgeDone(r) == saga[r].bridgeResult = "completed"
RateDone(r) == saga[r].rateCalls = 1 /\ saga[r].paycrestRate = PaycrestRate.rate
OrderDone(r) == saga[r].orderCalls = 1 /\ saga[r].paycrestOrder.id # NoVal
SettlementDone(r) ==
  /\ saga[r].baseTxHash # 0
  /\ \E t \in baseTxs : t.hash = saga[r].baseTxHash /\ t.confirmed

C30_LoopsStopOnTerminal ==
  [][ \A r \in Runs :
        ( /\ saga[r].pc = "bridgePoll"
          /\ saga'[r] # saga[r]
          /\ saga'[r].thrown = NoVal )
        => ( saga'[r].pc # "bridgePoll"
               <=> isComplete([ status |-> swapStatus[saga[r].body.swapId] ]) ) ]_vars

\* the terminal statuses of a payout order
TerminalPayout == { "validated", "settled", "refunded", "expired" }

\* C31: a pass of the payout polling loop that fetched the order returns
\* exactly when the fetched status is validated, settled, refunded or
\* expired, and goes on polling (until the deadline) while it is pending; the
\* finalStatus of a success response is one of those four statuses.
C31_PayoutLoopStopsOnTerminal ==
  [][ \A r \in Runs :
        ( /\ saga[r].pc = "payPoll"
          /\ saga'[r] # saga[r]
          /\ saga'[r].thrown # "AxiosError" )
        => LET fetched == payOrders[saga[r].paycrestOrder.id].status
           IN  /\ saga'[r].resp.code = 200 <=> fetched \in TerminalPayout
               /\ fetched = "pending" =>
                    \/ saga'[r].pc = "payPoll"
                    \/ saga'[r].thrown = PollTimeoutError
               /\ saga'[r].resp.code = 200 =>
                    /\ saga'[r].resp.finalStatus.status = fetched
                    /\ saga'[r].payResult.status \in TerminalPayout ]_vars

\* a success response that carries the status validated
C31_Witness ==
  \E r \in Runs :
    /\ saga[r].pc = "done"
    /\ saga[r].resp.code = 200
    /\ saga[r].resp.finalStatus.status = "validated"

\* the runs that submitted the source-chain transfer of swap s
SourceSubmitters(s) ==
  { r \in Runs : saga[r].body.swapId = s /\ saga[r].starknetTxHash # 0 }

\* C32: of the runs started with the same swapId, at most one submits the
\* source-chain transfer.
C32_OneSourceTransferPerSwap ==
  \A s \in SwapIds : Cardinality(SourceSubmitters(s)) <= 1

\* C33: pollWithTimeout returns the first fetched result of which
\* checkCondition holds: a result of which it holds is returned at once, it
\* is the last result fetched, and no call of pollFn follows it.
C33_FirstTerminalReturned ==
  /\ poll.result.terminal =>
       /\ poll.pc = "done"
       /\ poll.out = "return"
       /\ poll.result.seq = poll.fetches
  /\ poll.out = "return" => poll.result.terminal /\ poll.fetches >= 1
  /\ poll.result.seq <= poll.fetches

\* the third result was the first to satisfy the condition and was returned
C33_Witness ==
  /\ poll.out = "return"
  /\ poll.result = [ seq |-> 3, terminal |-> TRUE ]
  /\ poll.fetches = 3

\* C34: every call of pollWithTimeout eventually completes, by returning a
\* result, by throwing the error of pollFn or by throwing the timeout error,
\* also when no fetched result ever satisfies checkCondition.
C34_PollTerminates == <>(poll.pc = "done")

\* a call that ended on the deadline after three results, none of which
\* satisfied the condition
C34_Witness ==
  /\ poll.out = PollTimeoutError
  /\ poll.fetches = 3
  /\ ~poll.result.terminal

\* C35: exponentialBackoff called with maxRetries <= 0 never calls fn and
\* completes normally with the result undefined, throwing nothing; with
\* maxRetries >= 1 it completes normally only with the result of a
\* successful call of fn.
C35_NoAttemptsReturnsUndefined ==
  /\ retry.maxRetries <= 0 =>
       /\ retry.calls = 0
       /\ retry.errors = << >>
       /\ retry.out # "throw"
       /\ retry.pc = "done" => retry.out = "return" /\ retry.value = Undefined
  /\ (retry.maxRetries >= 1 /\ retry.out = "return") =>
       /\ retry.value.kind = "result"
       /\ retry.value.n = retry.calls
       /\ retry.calls >= 1

\* a call with maxRetries 0 that has returned undefined
C35_Witness ==
  /\ retry.pc = "done"
  /\ retry.maxRetries = 0
  /\ retry.out = "return"
  /\ retry.value = Undefined
  /\ retry.calls = 0

\* C36: when the compatibility lookup itself throws, the run takes the path
\* of an account that is not compatible: it ends with the same error and the
\* same answer, executeGaslessCalls is not called and no source-chain
\* transaction is submitted.
C36_LookupErrorMeansIneligible ==
  \A r \in Runs :
    saga[r].compat \in { "error", "incompatible" } =>
      /\ saga[r].pc = "done"
      /\ saga[r].thrown = "Account not compatible with gasless transactions"
      /\ saga[r].resp = ErrorResponse(500, "Internal server error")
      /\ saga[r].starknetTxHash = 0
      /\ \A t \in srcTxs : t.hash # TxHash(r, 1)

\* a run ended by a compatibility lookup that threw
C36_Witness ==
  \E r \in Runs :
    /\ saga[r].compat = "error"
    /\ saga[r].pc = "done"
    /\ saga[r].resp.code = 500

\* C37: a run answers success exactly when its payout polling returned a
\* terminal order status, which is when all six steps completed without
\* throwing; refunded and expired are such statuses; a run that answered
\* success submitted exactly one source-chain transfer and exactly one
\* settlement transfer.
C37_SuccessIffAllSteps ==
  \A r \in Runs :
    /\ saga[r].resp.status = "success" <=>
         (Done(r) /\ saga[r].payResult.status \in TerminalPayout)
    /\ saga[r].resp.status = "success" =>
         /\ saga[r].thrown = NoVal
         /\ saga[r].resp.code = 200
         /\ saga[r].resp.finalStatus = saga[r].payResult
         /\ SourceTransferDone(r) /\ BridgeDone(r) /\ RateDone(r)
         /\ OrderDone(r) /\ SettlementDone(r)
         /\ Cardinality(SourceTxOf(r)) = 1
         /\ saga[r].submits = 1
         /\ Cardinality(BaseTxOf(r)) = 1
    /\ (Done(r) /\ saga[r].thrown # NoVal) => saga[r].resp.status # "success"

\* a run answered success with an order that was refunded
C37_Witness ==
  \E r \in Runs :
    /\ Done(r)
    /\ saga[r].resp.status = "success"
    /\ saga[r].resp.finalStatus.status \in { "refunded", "expired" }
    /\ Cardinality(BaseTxOf(r)) = 1

\* no two neighbours of the sequence are equal
NoEqualNeighbours(q) == \A k \in 1 .. Len(q) - 1 : q[k] # q[k + 1]

\* C38: in the client utility pollLayerSwapStatus with a callback, a fetch
\* calls onStatusChange exactly when it is the first one or its status
\* differs from that of the fetch before; the statuses notified hold no two
\* equal neighbours, and the last one is the status of the result returned.
C38_NotifiedOnChange ==
  [][ ( /\ client.pc = "polling"
        /\ client' # client
        /\ client.withCallback
        /\ client'.out # "AxiosError" )
      => /\ client'.notified =
              IF client.prev = NoVal \/ client'.prev # client.prev
                THEN Append(client.notified, client'.prev)
              ELSE client.notified
         /\ NoEqualNeighbours(client'.notified)
         /\ client'.out = "return" =>
              client'.notified[Len(client'.notified)] = client'.result ]_vars

\* a call that notified the three statuses of a swap that completed, and
\* returned the completed swap
C38_Witness ==
  /\ client.out = "return"
  /\ client.notified = << "user_transfer_pending", "ls_transfer_pending", "completed" >>
  /\ client.elapsed >= 3 * ClientInterval

\* p is an initial part of s
HasPrefix(s, p) == Len(p) <= Len(s) /\ \A k \in 1 .. Len(p) : s[k] = p[k]

\* the allow-list: the prefixes a GET and a POST may name
AllowList(method) ==
  IF method = "GET" THEN { Currencies, Institutions, Rates, Sender, Swaps }
  ELSE { VerifyAccount, Sender, Swaps }

\* the request names an endpoint of the allow-list of its method
AllowListed ==
  /\ proxy.hasEndpoint
  /\ \E p \in AllowList(proxy.method) : HasPrefix(proxy.endpoint, p)

\* the route has called a provider
Forwarded == proxy.outbound # NoOutbound

\* a request is forwarded only if allow-listed, as it came in, and one whose
\* endpoint starts with /swaps only to the bridge provider
ForwardedOnlyAllowed ==
  Forwarded =>
    /\ AllowListed
    /\ proxy.outbound.endpoint = proxy.endpoint
    /\ proxy.outbound.method = proxy.method
    /\ proxy.outbound.base =
         IF HasPrefix(proxy.endpoint, Swaps) THEN LAYERSWAP_API ELSE PAYCREST_API

\* C39 as stated: the proxy route calls a provider only for an allow-listed
\* endpoint; a request without the endpoint parameter or with an endpoint
\* outside the allow-list is answered 400 with no provider call; a request
\* whose endpoint starts with /swaps is always forwarded to the bridge
\* provider and never to the payout provider.
C39_AllowListOnly ==
  /\ ForwardedOnlyAllowed
  /\ (proxy.pc = "done" /\ ~AllowListed) => (proxy.code = 400 /\ ~Forwarded)
  /\ (proxy.pc = "done" /\ AllowListed /\ HasPrefix(proxy.endpoint, Swaps)) =>
       proxy.outbound.base = LAYERSWAP_API

\* the POST handler has read the body and it was not JSON
BodyRejected ==
  /\ proxy.method = "POST"
  /\ proxy.hasEndpoint /\ proxy.endpoint # << >>
  /\ ~proxy.bodyIsJson

\* C39, amended: the proxy route calls a provider only for an allow-listed
\* endpoint. A request without the endpoint parameter, or with an empty one,
\* is answered 400. A POST with an endpoint whose body is not JSON is answered
\* 500, whatever its endpoint. Any other request with an endpoint outside the
\* allow-list is answered 400. None of these calls a provider. Every other
\* request whose endpoint starts with /swaps is forwarded to the bridge
\* provider, and none is ever forwarded to the payout provider.
C39_AllowListOnlyAmended ==
  /\ ForwardedOnlyAllowed
  /\ (proxy.pc = "done" /\ ~AllowListed) =>
       /\ ~Forwarded
       /\ proxy.code = IF BodyRejected THEN 500 ELSE 400
  /\ (proxy.pc = "done" /\ BodyRejected) =>
       /\ ~Forwarded
       /\ proxy.code = 500
  /\ (proxy.pc = "done" /\ AllowListed /\ ~BodyRejected
        /\ HasPrefix(proxy.endpoint, Swaps)) =>
       proxy.outbound.base = LAYERSWAP_API

\* a POST to /admin with a body that is not JSON, answered 500 with no
\* provider called
C39_Witness ==
  /\ proxy.pc = "done"
  /\ proxy.method = "POST"
  /\ proxy.endpoint = << "/", "a", "d", "m", "i", "n" >>
  /\ ~proxy.bodyIsJson
  /\ proxy.code = 500
  /\ ~Forwarded

====
